---- MODULE Spec2Model ----
(***************************************************************************)
(* A model of ratemyprof_api: the Professor record (professor.py) and the  *)
(* RateMyProfApi session (ratemyprof_api.py): extraction of professors and *)
(* ratings from a Relay object store, search, lookup by id with            *)
(* memoization, and lookup by name.                                        *)
(*                                                                         *)
(* Python values are tagged records.  A Python exception is an outcome of  *)
(* the operator that raises it: every operator that can raise returns a    *)
(* record with the field exc.                                              *)
(***************************************************************************)
EXTENDS Integers, Sequences, FiniteSets, TLC

(***************************************************************************)
(* JSON / Python values.  Str carries an opaque string (keys of the store, *)
(* type tags), Txt a string as its sequence of code points (names, queries *)
(* and comments, which the code lowers, splits, compares and rewrites).    *)
(***************************************************************************)
Null == [t |-> "null"]

Num(n) == [t |-> "num", n |-> n]

Bool(b) == [t |-> "bool", b |-> b]

Str(s) == [t |-> "str", s |-> s]

Txt(c) == [t |-> "txt", c |-> c]

List(l) == [t |-> "list", l |-> l]

Map(f) == [t |-> "map", f |-> f]

EmptyMap == Map([x \in {} |-> Null])

EmptyTxt == Txt(<<>>)

\* The outcome of an expression: a value, or a raised exception.
Ok(v) == [exc |-> FALSE, v |-> v]

Raise == [exc |-> TRUE, v |-> Null]

\* bool(v)
Truthy(v) ==
    CASE v.t = "null" -> FALSE
      [] v.t = "num" -> v.n # 0
      [] v.t = "bool" -> v.b
      [] v.t = "str" -> v.s # ""
      [] v.t = "txt" -> v.c # <<>>
      [] v.t = "list" -> v.l # <<>>
      [] v.t = "map" -> DOMAIN v.f # {}

\* hash(v) succeeds (v can be a dict key or the argument of dict.get)
Hashable(v) == v.t \notin {"list", "map"}

\* `field in v`: key membership for a mapping, element membership for a
\* list, TypeError for None, numbers and booleans.  No string value of the
\* modelled stores contains a field name, so the substring test is false.
PyIn(field, v) ==
    CASE v.t = "map" -> Ok(field \in DOMAIN v.f)
      [] v.t = "list" -> Ok(\E i \in 1..Len(v.l) : v.l[i] = Str(field))
      [] v.t \in {"str", "txt"} -> Ok(FALSE)
      [] OTHER -> [exc |-> TRUE, v |-> FALSE]

\* v.get(field, default): AttributeError unless v is a mapping
PyGetD(v, field, default) ==
    IF v.t # "map" THEN Raise
    ELSE IF field \in DOMAIN v.f THEN Ok(v.f[field]) ELSE Ok(default)

\* v.get(field)
PyGet(v, field) == PyGetD(v, field, Null)

\* m.get(field, default) for m known to be a mapping
GetD(m, field, default) == PyGetD(m, field, default).v

\* `field in v and v[field] == tag`
HasTag(v, tag) ==
    LET c == PyIn("__typename", v)
    IN  IF c.exc THEN [exc |-> TRUE, v |-> FALSE]
        ELSE IF ~c.v THEN Ok(FALSE)
        ELSE IF v.t # "map" THEN [exc |-> TRUE, v |-> FALSE]
        ELSE Ok(v.f["__typename"] = Str(tag))

(***************************************************************************)
(* The object store: the parsed JSON object, an insertion-ordered mapping  *)
(* (the order of the document), as a sequence of <<key, value>> pairs with *)
(* distinct keys.                                                          *)
(***************************************************************************)
RECURSIVE StoreIndex(_, _, _)
StoreIndex(relay_data, key, i) ==
    IF i > Len(relay_data) THEN 0
    ELSE IF relay_data[i][1] = key THEN i
    ELSE StoreIndex(relay_data, key, i + 1)

\* relay_data.get(ref, default): TypeError for an unhashable ref
StoreGetD(relay_data, ref, default) ==
    IF ~Hashable(ref) THEN Raise
    ELSE IF ref.t # "str" THEN Ok(default)
    ELSE LET i == StoreIndex(relay_data, ref.s, 1)
         IN  IF i = 0 THEN Ok(default) ELSE Ok(relay_data[i][2])

StoreGet(relay_data, ref) == StoreGetD(relay_data, ref, Null)

(***************************************************************************)
(* Strings as code points.                                                 *)
(***************************************************************************)
SP == 32

\* str.lower() on one code point (ASCII)
LowerChar(c) == IF c >= 65 /\ c <= 90 THEN c + 32 ELSE c

Lower(s) == [i \in 1..Len(s) |-> LowerChar(s[i])]

\* whitespace of str.split()
IsSpace(c) == c \in {9, 10, 11, 12, 13, 32}

\* s.split(): the maximal runs of non-whitespace, in order
RECURSIVE SplitFrom(_, _, _, _)
SplitFrom(s, i, cur, acc) ==
    IF i > Len(s) THEN (IF cur = <<>> THEN acc ELSE Append(acc, cur))
    ELSE IF IsSpace(s[i])
         THEN SplitFrom(s, i + 1, <<>>, IF cur = <<>> THEN acc ELSE Append(acc, cur))
         ELSE SplitFrom(s, i + 1, Append(cur, s[i]), acc)

Split(s) == SplitFrom(s, 1, <<>>, <<>>)

\* a < b for Python strings: lexicographic by code point
RECURSIVE StrLess(_, _)
StrLess(a, b) ==
    IF b = <<>> THEN FALSE
    ELSE IF a = <<>> THEN TRUE
    ELSE IF a[1] # b[1] THEN a[1] < b[1]
    ELSE StrLess(Tail(a), Tail(b))

StrLeq(a, b) == a = b \/ StrLess(a, b)

\* str(v) inside an f-string, for the values a name field can hold
Format(v) ==
    CASE v.t = "txt" -> v.c
      [] v.t = "null" -> <<78, 111, 110, 101>>
      [] OTHER -> <<63>>

(***************************************************************************)
(* professor.py: Professor.__init__                                        *)
(***************************************************************************)
\* num_of_ratings < 1: TypeError unless num_of_ratings is a number
LessThanOne(v) ==
    CASE v.t = "num" -> Ok(v.n < 1)
      [] v.t = "bool" -> Ok(~v.b)
      [] OTHER -> [exc |-> TRUE, v |-> FALSE]

\* float(v): a number; ValueError or TypeError for the other values
ToFloat(v) ==
    CASE v.t = "num" -> Ok(v)
      [] v.t = "bool" -> Ok(Num(IF v.b THEN 1 ELSE 0))
      [] OTHER -> Raise

\* float(overall_rating) if overall_rating else 0
CoerceRating(overall_rating) ==
    IF Truthy(overall_rating) THEN ToFloat(overall_rating) ELSE Ok(Num(0))

\* a constructor that keeps the supplied rating whatever the count
InitOverallRating_NoZeroing(num_of_ratings, overall_rating) ==
    IF LessThanOne(num_of_ratings).exc THEN Raise
    ELSE IF Truthy(overall_rating) /\ overall_rating.t = "num" THEN Ok(overall_rating)
    ELSE Ok(Num(0))

\* the overall_rating the constructor stores
InitOverallRating(num_of_ratings, overall_rating) ==
    LET lt == LessThanOne(num_of_ratings)
    IN  IF lt.exc THEN Raise
        ELSE IF lt.v THEN Ok(Num(0))
        ELSE CoerceRating(overall_rating)

NoProfessor == [none |-> TRUE]

Professor(ratemyprof_id, first_name, last_name, num_of_ratings, overall_rating) ==
    LET r == InitOverallRating(num_of_ratings, overall_rating)
    IN  IF r.exc THEN [exc |-> TRUE, v |-> NoProfessor]
        ELSE Ok([ratemyprof_id |-> ratemyprof_id,
                 name |-> Txt(Format(first_name) \o <<SP>> \o Format(last_name)),
                 first_name |-> first_name,
                 last_name |-> last_name,
                 num_of_ratings |-> num_of_ratings,
                 overall_rating |-> r.v,
                 department |-> Str(""),
                 would_take_again_percent |-> Num(0),
                 difficulty |-> Num(0),
                 ratings |-> <<>>])

(***************************************************************************)
(* Keys of the store.  key.startswith(prefix) is decided on the keys the   *)
(* modelled pages use: the search connection and its edges share the       *)
(* prefix of the connection, as in the site's Relay store.                 *)
(***************************************************************************)
SearchPrefix == "client:root:newSearch:teachers"

TeacherPrefix == "VGVhY2hlci0"

KConn == "client:root:newSearch:teachers(q)"

KEdge(i) == CASE i = 1 -> "client:root:newSearch:teachers(q):edges:0"
              [] i = 2 -> "client:root:newSearch:teachers(q):edges:1"
              [] OTHER -> "client:root:newSearch:teachers(q):edges:2"

KTeacher(i) == CASE i = 1 -> "VGVhY2hlci0x"
                 [] i = 2 -> "VGVhY2hlci0y"
                 [] OTHER -> "VGVhY2hlci0z"

KSchool == "U2Nob29sLTE"

KRatings == "client:VGVhY2hlci0x:ratings(first:20)"

KRatingEdge(i) == CASE i = 1 -> "client:VGVhY2hlci0x:ratings(first:20):edges:0"
                    [] i = 2 -> "client:VGVhY2hlci0x:ratings(first:20):edges:1"
                    [] OTHER -> "client:VGVhY2hlci0x:ratings(first:20):edges:2"

KRating(i) == CASE i = 1 -> "UmF0aW5nLTE"
                [] i = 2 -> "UmF0aW5nLTI"
                [] OTHER -> "UmF0aW5nLTM"

KDangling == "missing"

StartsWith(key, prefix) ==
    CASE prefix = SearchPrefix -> key \in {KConn, KEdge(1), KEdge(2), KEdge(3)}
      [] prefix = TeacherPrefix -> key \in {KTeacher(1), KTeacher(2), KTeacher(3)}
      [] OTHER -> FALSE

(***************************************************************************)
(* The extraction engine.                                                  *)
(***************************************************************************)
\* for key, value in relay_data.items(): the first entry whose key has the
\* prefix and whose value carries the type tag (0: none)
RECURSIVE FindTagged(_, _, _, _)
FindTagged(relay_data, prefix, tag, i) ==
    IF i > Len(relay_data) THEN [exc |-> FALSE, i |-> 0]
    ELSE IF ~StartsWith(relay_data[i][1], prefix)
         THEN FindTagged(relay_data, prefix, tag, i + 1)
         ELSE LET h == HasTag(relay_data[i][2], tag)
              IN  IF h.exc THEN [exc |-> TRUE, i |-> 0]
                  ELSE IF h.v THEN [exc |-> FALSE, i |-> i]
                  ELSE FindTagged(relay_data, prefix, tag, i + 1)

\* the items `for x in v` visits: the elements of a list, nothing for an
\* empty container, TypeError for None and numbers (the modelled stores
\* hold no non-empty mapping or string in the place of a reference list)
Iterate(v) ==
    CASE v.t = "list" -> [exc |-> FALSE, l |-> v.l]
      [] v.t \in {"null", "num", "bool"} -> [exc |-> TRUE, l |-> <<>>]
      [] OTHER -> [exc |-> FALSE, l |-> <<>>]

\* connection["edges"].get("__refs", []), for a connection holding "edges"
EdgeRefs(connection) ==
    LET r == PyGetD(connection.f["edges"], "__refs", List(<<>>))
    IN  IF r.exc THEN [exc |-> TRUE, l |-> <<>>] ELSE Iterate(r.v)

\* The outcome of one turn of a loop: an item, `continue`, or an exception.
Skip == [exc |-> FALSE, skip |-> TRUE, v |-> Null]

Item(v) == [exc |-> FALSE, skip |-> FALSE, v |-> v]

Fail == [exc |-> TRUE, skip |-> FALSE, v |-> Null]

\* edge_ref -> edge -> node -> record tagged `tag`
ResolveNode(relay_data, edge_ref, tag) ==
    LET edge == StoreGet(relay_data, edge_ref)
    IN  IF edge.exc THEN Fail
        ELSE IF ~Truthy(edge.v) THEN Skip
        ELSE IF PyIn("node", edge.v).exc THEN Fail
        ELSE IF ~PyIn("node", edge.v).v THEN Skip
        ELSE IF edge.v.t # "map" THEN Fail
        ELSE LET node_ref == PyGet(edge.v.f["node"], "__ref")
             IN  IF node_ref.exc THEN Fail
                 ELSE IF ~Truthy(node_ref.v) THEN Skip
                 ELSE LET data == StoreGet(relay_data, node_ref.v)
                      IN  IF data.exc THEN Fail
                          ELSE IF ~Truthy(data.v) THEN Skip
                          ELSE LET h == HasTag(data.v, tag)
                               IN  IF h.exc THEN Fail
                                   ELSE IF ~h.v THEN Skip
                                   ELSE Item(data.v)

\* school_ref = prof_data.get("school", {}).get("__ref");
\* school_data = relay_data.get(school_ref, {}): TRUE when either raises
SchoolLookupRaises(relay_data, prof_data) ==
    LET school_ref == PyGet(GetD(prof_data, "school", EmptyMap), "__ref")
    IN  school_ref.exc \/ StoreGetD(relay_data, school_ref.v, EmptyMap).exc

\* the Professor built from a teacher record, with the additional fields
TeacherRecord(prof_data) ==
    LET p == Professor(GetD(prof_data, "legacyId", Null),
                       GetD(prof_data, "firstName", EmptyTxt),
                       GetD(prof_data, "lastName", EmptyTxt),
                       GetD(prof_data, "numRatings", Num(0)),
                       GetD(prof_data, "avgRating", Num(0)))
    IN  IF p.exc THEN p
        ELSE Ok([p.v EXCEPT
                 !.department = GetD(prof_data, "department", Str("")),
                 !.would_take_again_percent = GetD(prof_data, "wouldTakeAgainPercent", Num(0)),
                 !.difficulty = GetD(prof_data, "avgDifficulty", Num(0))])

\* a search loop that keeps a candidate without legacyId
SearchCandidate_NoIdCheck(relay_data, edge_ref) ==
    LET n == ResolveNode(relay_data, edge_ref, "Teacher")
    IN  IF n.exc \/ n.skip THEN n
        ELSE IF SchoolLookupRaises(relay_data, n.v) THEN Fail
        ELSE LET p == TeacherRecord(n.v)
             IN  IF p.exc \/ ~Hashable(p.v.ratemyprof_id) THEN Fail
                 ELSE Item(p.v)

\* one candidate of the search loop
SearchCandidate(relay_data, edge_ref) ==
    LET n == ResolveNode(relay_data, edge_ref, "Teacher")
    IN  IF n.exc \/ n.skip THEN n
        ELSE IF SchoolLookupRaises(relay_data, n.v) THEN Fail
        ELSE IF ~Truthy(GetD(n.v, "legacyId", Null)) THEN Skip
        ELSE LET p == TeacherRecord(n.v)
             IN  IF p.exc \/ ~Hashable(p.v.ratemyprof_id) THEN Fail
                 ELSE Item(p.v)

\* A dict of professors keyed by ratemyprof_id, in insertion order.
RECURSIVE DictIndex(_, _, _)
DictIndex(d, id, i) ==
    IF i > Len(d) THEN 0
    ELSE IF d[i].ratemyprof_id = id THEN i
    ELSE DictIndex(d, id, i + 1)

\* d[p.ratemyprof_id] = p
DictPut(d, p) ==
    LET i == DictIndex(d, p.ratemyprof_id, 1)
    IN  IF i = 0 THEN Append(d, p) ELSE [d EXCEPT ![i] = p]

RECURSIVE SearchLoop(_, _, _, _)
SearchLoop(relay_data, refs, i, acc) ==
    IF i > Len(refs) THEN [exc |-> FALSE, d |-> acc]
    ELSE LET c == SearchCandidate(relay_data, refs[i])
         IN  IF c.exc THEN [exc |-> TRUE, d |-> <<>>]
             ELSE SearchLoop(relay_data, refs, i + 1,
                             IF c.skip THEN acc ELSE DictPut(acc, c.v))

\* RateMyProfApi._process_professor_search_data
ProcessProfessorSearchData(relay_data) ==
    LET f == FindTagged(relay_data, SearchPrefix, "TeacherSearchConnectionConnection", 1)
    IN  IF f.exc THEN [exc |-> TRUE, d |-> <<>>]
        ELSE IF f.i = 0 THEN [exc |-> FALSE, d |-> <<>>]
        ELSE LET search_results == relay_data[f.i][2]
             IN  IF "edges" \notin DOMAIN search_results.f
                 THEN [exc |-> FALSE, d |-> <<>>]
                 ELSE LET refs == EdgeRefs(search_results)
                      IN  IF refs.exc THEN [exc |-> TRUE, d |-> <<>>]
                          ELSE SearchLoop(relay_data, refs.l, 1, <<>>)

\* the rating dictionary built from a rating record (lines 339-351)
RatingDict(rating_data) ==
    [id |-> GetD(rating_data, "legacyId", Null),
     class |-> GetD(rating_data, "class", Str("")),
     comment |-> GetD(rating_data, "comment", EmptyTxt),
     date |-> GetD(rating_data, "date", Str("")),
     helpful_rating |-> GetD(rating_data, "helpfulRating", Num(0)),
     clarity_rating |-> GetD(rating_data, "clarityRating", Num(0)),
     difficulty_rating |-> GetD(rating_data, "difficultyRating", Num(0)),
     would_take_again |-> GetD(rating_data, "wouldTakeAgain", Num(0)),
     grade |-> GetD(rating_data, "grade", Str("")),
     tags |-> GetD(rating_data, "ratingTags", Str("")),
     is_for_online_class |-> GetD(rating_data, "isForOnlineClass", Bool(FALSE))]

\* a ratings loop that puts each rating in front of the earlier ones
RECURSIVE RatingsLoop_Prepend(_, _, _, _)
RatingsLoop_Prepend(relay_data, refs, i, acc) ==
    IF i > Len(refs) THEN [exc |-> FALSE, l |-> acc]
    ELSE LET n == ResolveNode(relay_data, refs[i], "Rating")
         IN  IF n.exc THEN [exc |-> TRUE, l |-> <<>>]
             ELSE RatingsLoop_Prepend(relay_data, refs, i + 1,
                                      IF n.skip THEN acc ELSE <<RatingDict(n.v)>> \o acc)

RECURSIVE RatingsLoop(_, _, _, _)
RatingsLoop(relay_data, refs, i, acc) ==
    IF i > Len(refs) THEN [exc |-> FALSE, l |-> acc]
    ELSE LET n == ResolveNode(relay_data, refs[i], "Rating")
         IN  IF n.exc THEN [exc |-> TRUE, l |-> <<>>]
             ELSE RatingsLoop(relay_data, refs, i + 1,
                              IF n.skip THEN acc ELSE Append(acc, RatingDict(n.v)))

\* RateMyProfApi._extract_ratings
ExtractRatings(relay_data, prof_data) ==
    LET ratings_ref == PyGet(GetD(prof_data, "ratings(first:20)", EmptyMap), "__ref")
    IN  IF ratings_ref.exc THEN [exc |-> TRUE, l |-> <<>>]
        ELSE IF ~Truthy(ratings_ref.v) THEN [exc |-> FALSE, l |-> <<>>]
        ELSE LET ratings_connection == StoreGet(relay_data, ratings_ref.v)
             IN  IF ratings_connection.exc THEN [exc |-> TRUE, l |-> <<>>]
                 ELSE IF ~Truthy(ratings_connection.v) THEN [exc |-> FALSE, l |-> <<>>]
                 ELSE IF PyIn("edges", ratings_connection.v).exc THEN [exc |-> TRUE, l |-> <<>>]
                 ELSE IF ~PyIn("edges", ratings_connection.v).v THEN [exc |-> FALSE, l |-> <<>>]
                 ELSE IF ratings_connection.v.t # "map" THEN [exc |-> TRUE, l |-> <<>>]
                 ELSE LET refs == EdgeRefs(ratings_connection.v)
                      IN  IF refs.exc THEN [exc |-> TRUE, l |-> <<>>]
                          ELSE RatingsLoop(relay_data, refs.l, 1, <<>>)

\* The outcome of an operation returning Optional[Professor].
Absent == [exc |-> FALSE, none |-> TRUE, v |-> NoProfessor]

Found(p) == [exc |-> FALSE, none |-> FALSE, v |-> p]

Raised == [exc |-> TRUE, none |-> FALSE, v |-> NoProfessor]

\* the teacher record the detail page is read from: the first entry with
\* the teacher prefix and tag (lines 258-263)
DetailNode(relay_data) == FindTagged(relay_data, TeacherPrefix, "Teacher", 1)

\* get_professor_by_id, from the parsed detail page on (lines 258-296): the
\* professor with its ratings, before it is put in self.professors
DetailProfessor(relay_data) ==
    LET f == DetailNode(relay_data)
    IN  IF f.exc THEN Raised
        ELSE IF f.i = 0 THEN Absent
        ELSE LET prof_data == relay_data[f.i][2]
             IN  IF SchoolLookupRaises(relay_data, prof_data) THEN Raised
                 ELSE IF ~Truthy(GetD(prof_data, "legacyId", Null)) THEN Absent
                 ELSE LET p == TeacherRecord(prof_data)
                          r == ExtractRatings(relay_data, prof_data)
                      IN  IF p.exc THEN Raised
                          ELSE IF r.exc THEN Raised
                          ELSE IF ~Hashable(p.v.ratemyprof_id) THEN Raised
                          ELSE Found([p.v EXCEPT !.ratings = r.l])

(***************************************************************************)
(* Pages.  A response is a status code and a text; the text either holds   *)
(* the assignment `window.__RELAY_STORE__ = {...};` or not, and its        *)
(* payload parses as JSON (to the store) or not.                           *)
(***************************************************************************)
Page(relay_data) == [pattern |-> TRUE, valid |-> TRUE, store |-> relay_data]

NoPatternPage == [pattern |-> FALSE, valid |-> FALSE, store |-> <<>>]

BadJsonPage == [pattern |-> TRUE, valid |-> FALSE, store |-> <<>>]

Response(status_code, text) == [status_code |-> status_code, text |-> text]

\* RateMyProfApi._extract_relay_data
ExtractRelayData(html_content) ==
    IF html_content.pattern /\ html_content.valid THEN html_content.store ELSE <<>>

(***************************************************************************)
(* search_professor, get_professor_by_id and get_professor_by_name as      *)
(* functions of the session's store and of the responses fetched.          *)
(***************************************************************************)
\* prof_list.sort(key=lambda p: p.name): a stable sort; p goes behind the
\* elements of the sorted prefix whose name is not greater
RECURSIVE InsertByName(_, _)
InsertByName(sorted, p) ==
    IF sorted = <<>> THEN <<p>>
    ELSE IF StrLess(p.name.c, sorted[1].name.c) THEN <<p>> \o sorted
    ELSE <<sorted[1]>> \o InsertByName(Tail(sorted), p)

RECURSIVE SortFrom(_, _, _)
SortFrom(prof_list, i, sorted) ==
    IF i > Len(prof_list) THEN sorted
    ELSE SortFrom(prof_list, i + 1, InsertByName(sorted, prof_list[i]))

\* a search that returns the professors in extraction order
SortByName_Unsorted(prof_list) == prof_list

SortByName(prof_list) == SortFrom(prof_list, 1, <<>>)

\* search_professor, given the response of its fetch
SearchResult(response) ==
    IF response.status_code # 200 THEN [exc |-> FALSE, l |-> <<>>]
    ELSE LET relay_data == ExtractRelayData(response.text)
         IN  IF relay_data = <<>> THEN [exc |-> FALSE, l |-> <<>>]
             ELSE LET d == ProcessProfessorSearchData(relay_data)
                  IN  IF d.exc THEN [exc |-> TRUE, l |-> <<>>]
                      ELSE [exc |-> FALSE, l |-> SortByName(d.d)]

\* professor_id in self.professors
Cached(profs, professor_id) == DictIndex(profs, professor_id, 1) # 0

\* a detail fetch that reads the body whatever the status
DetailResult_NoStatusCheck(response) ==
    LET relay_data == ExtractRelayData(response.text)
    IN  IF relay_data = <<>> THEN Absent ELSE DetailProfessor(relay_data)

\* get_professor_by_id from the response of its fetch on (lines 248-296)
DetailResult(response) ==
    IF response.status_code # 200 THEN Absent
    ELSE LET relay_data == ExtractRelayData(response.text)
         IN  IF relay_data = <<>> THEN Absent ELSE DetailProfessor(relay_data)

\* a lookup that fetches again although the id is stored
ByIdResult_NoMemo(profs, professor_id, r) ==
    [out |-> r,
     professors |-> IF r.exc \/ r.none THEN profs ELSE DictPut(profs, r.v),
     fetched |-> TRUE]

\* get_professor_by_id, given what the fetch it makes when the id is not in
\* self.professors delivers: what it returns, self.professors afterwards,
\* and whether it fetched
ByIdResult(profs, professor_id, r) ==
    IF Cached(profs, professor_id)
    THEN [out |-> Found(profs[DictIndex(profs, professor_id, 1)]),
          professors |-> profs, fetched |-> FALSE]
    ELSE [out |-> r,
          professors |-> IF r.exc \/ r.none THEN profs ELSE DictPut(profs, r.v),
          fetched |-> TRUE]

\* s.lower() == token: AttributeError unless s is a string
LowerEquals(s, token) ==
    IF s.t = "txt" THEN Ok(Lower(s.c) = token) ELSE [exc |-> TRUE, v |-> FALSE]

\* the first professor of the list whose first and last name equal the
\* tokens (0: none)
RECURSIVE ExactMatch(_, _, _, _)
ExactMatch(profs_list, first_name, last_name, i) ==
    IF i > Len(profs_list) THEN [exc |-> FALSE, i |-> 0]
    ELSE LET a == LowerEquals(profs_list[i].first_name, first_name)
             b == LowerEquals(profs_list[i].last_name, last_name)
         IN  IF a.exc THEN [exc |-> TRUE, i |-> 0]
             ELSE IF ~a.v THEN ExactMatch(profs_list, first_name, last_name, i + 1)
             ELSE IF b.exc THEN [exc |-> TRUE, i |-> 0]
             ELSE IF b.v THEN [exc |-> FALSE, i |-> i]
             ELSE ExactMatch(profs_list, first_name, last_name, i + 1)

\* a choice that matches the second token as the last name
ChosenIndex_SecondToken(name, profs_list) ==
    LET name_parts == Split(Lower(name))
    IN  IF Len(name_parts) >= 2
        THEN LET m == ExactMatch(profs_list, name_parts[1], name_parts[2], 1)
             IN  IF m.exc THEN m
                 ELSE IF m.i # 0 THEN m
                 ELSE [exc |-> FALSE, i |-> 1]
        ELSE [exc |-> FALSE, i |-> 1]

\* the index in the non-empty search result of the candidate that
\* get_professor_by_name resolves (lines 372-385)
ChosenIndex(name, profs_list) ==
    LET name_parts == Split(Lower(name))
    IN  IF Len(name_parts) >= 2
        THEN LET m == ExactMatch(profs_list, name_parts[1], name_parts[Len(name_parts)], 1)
             IN  IF m.exc THEN m
                 ELSE IF m.i # 0 THEN m
                 ELSE [exc |-> FALSE, i |-> 1]
        ELSE [exc |-> FALSE, i |-> 1]

\* RateMyProfApi.scrape_professors, given the response of its fetch
ScrapeProfessors(response) ==
    IF response.status_code # 200 THEN [exc |-> FALSE, d |-> <<>>]
    ELSE LET relay_data == ExtractRelayData(response.text)
         IN  IF relay_data = <<>> THEN [exc |-> FALSE, d |-> <<>>]
             ELSE ProcessProfessorSearchData(relay_data)

(***************************************************************************)
(* write_ratings_to_csv: the comment of each row.                          *)
(***************************************************************************)
LF == 10

CR == 13

DQ == 34

\* s.replace(old, new) for single characters
Replace(s, old, new) == [i \in 1..Len(s) |-> IF s[i] = old THEN new ELSE s[i]]

\* a clean-up that replaces the line feeds alone
NormalizeComment_OnlyLF(comment) == Replace(comment, LF, SP)

\* comment.replace("\n", " ").replace("\r", " ") (line 454)
NormalizeComment(comment) == Replace(Replace(comment, LF, SP), CR, SP)

\* lines 453-454 on one rating: a comment that is falsy is left alone, one
\* that is truthy and no string has no replace (AttributeError)
CleanRating(rating) ==
    IF ~Truthy(rating.comment) THEN Ok(rating)
    ELSE IF rating.comment.t # "txt" THEN Raise
    ELSE Ok([rating EXCEPT !.comment = Txt(NormalizeComment(rating.comment.c))])

\* each quote character twice
RECURSIVE DoubleQuotes(_)
DoubleQuotes(s) ==
    IF s = <<>> THEN <<>>
    ELSE (IF Head(s) = DQ THEN <<DQ, DQ>> ELSE <<Head(s)>>) \o DoubleQuotes(Tail(s))

\* the cell csv.DictWriter writes for a value under QUOTE_ALL (line 448):
\* the text between quotes with its quotes doubled, nothing for None, the
\* digit of a small number
CsvCell(v) ==
    <<DQ>> \o (CASE v.t = "txt" -> DoubleQuotes(v.c)
                 [] v.t = "null" -> <<>>
                 [] v.t = "num" -> <<48 + v.n>>
                 [] OTHER -> <<63>>) \o <<DQ>>

\* the loop of lines 451-455: the ratings as the loop leaves them (each
\* dictionary is changed in place), the comment cells of the rows written,
\* and whether the loop raised
RECURSIVE CsvLoop(_, _, _, _)
CsvLoop(ratings, i, done, cells) ==
    IF i > Len(ratings) THEN [exc |-> FALSE, ratings |-> done, cells |-> cells]
    ELSE IF CleanRating(ratings[i]).exc
         THEN [exc |-> TRUE, ratings |-> done \o SubSeq(ratings, i, Len(ratings)),
               cells |-> cells]
         ELSE CsvLoop(ratings, i + 1, Append(done, CleanRating(ratings[i]).v),
                      Append(cells, CsvCell(CleanRating(ratings[i]).v.comment)))

\* the store after the ratings of the record under id were changed in place
SetRatings(profs, id, ratings) ==
    [i \in 1..Len(profs) |->
        IF profs[i].ratemyprof_id = id THEN [profs[i] EXCEPT !.ratings = ratings]
        ELSE profs[i]]

(***************************************************************************)
(* The pages the model fetches.                                            *)
(***************************************************************************)
\* a field the record does not carry
Missing == [t |-> "missing"]

\* the mapping with the fields of f that are not Missing
MkMap(f) == Map([k \in {x \in DOMAIN f : f[x] # Missing} |-> f[k]])

Ref(key) == Map("__ref" :> Str(key))

TeacherData(id, first, last, num, avg, school, ratings) ==
    MkMap(("__typename" :> Str("Teacher")) @@ ("legacyId" :> id)
          @@ ("firstName" :> first) @@ ("lastName" :> last)
          @@ ("numRatings" :> num) @@ ("avgRating" :> avg)
          @@ ("school" :> school) @@ ("ratings(first:20)" :> ratings))

Connection(tag, edges) == MkMap(("__typename" :> Str(tag)) @@ ("edges" :> edges))

Refs(keys) == Map("__refs" :> List([i \in 1..Len(keys) |-> Str(keys[i])]))

Edge(tag, node) == MkMap(("__typename" :> Str(tag)) @@ ("node" :> node))

RatingData(id, comment) ==
    MkMap(("__typename" :> Str("Rating")) @@ ("legacyId" :> id) @@ ("comment" :> comment))

\* a well-linked search page with the given teacher records, in order
SearchStore(teachers) ==
    <<<<KConn, Connection("TeacherSearchConnectionConnection",
                          Refs([i \in 1..Len(teachers) |-> KEdge(i)]))>>>>
    \o [i \in 1..Len(teachers) |->
          <<KEdge(i), Edge("TeacherSearchConnectionEdge", Ref(KTeacher(i)))>>]
    \o [i \in 1..Len(teachers) |-> <<KTeacher(i), teachers[i]>>]

\* the ratings connection of a detail page, its edges and its rating
\* records; edge i points at rating nodes[i]
RatingEntries(refs, nodes) ==
    <<<<KRatings, Connection("RatingConnection", Refs(refs))>>>>
    \o [i \in 1..Len(nodes) |-> <<KRatingEdge(i), Edge("RatingEdge", Ref(KRating(i)))>>]
    \o [i \in 1..Len(nodes) |-> <<KRating(i), nodes[i]>>]

\* a well-linked detail page: the teacher records in document order, then
\* the ratings
DetailStore(teachers, refs, nodes) ==
    [i \in 1..Len(teachers) |-> <<KTeacher(i), teachers[i]>>]
    \o RatingEntries(refs, nodes)

\* the elements of a set in some order
RECURSIVE SetToSeq(_)
SetToSeq(S) ==
    IF S = {} THEN <<>>
    ELSE LET x == CHOOSE y \in S : TRUE IN <<x>> \o SetToSeq(S \ {x})

\* all the sequences of n elements of the sequence base, and of up to n
RECURSIVE Tuples(_, _)
Tuples(base, n) ==
    IF n = 0 THEN << <<>> >>
    ELSE LET P == Tuples(base, n - 1)
         IN  [k \in 1..(Len(P) * Len(base)) |->
                Append(P[((k - 1) \div Len(base)) + 1], base[((k - 1) % Len(base)) + 1])]

RECURSIVE Seqs(_, _)
Seqs(base, n) == IF n = 0 THEN Tuples(base, 0) ELSE Seqs(base, n - 1) \o Tuples(base, n)

Range(l) == {l[i] : i \in 1..Len(l)}


(***************************************************************************)
(* Spec: the session, with small pages.                                    *)
(***************************************************************************)
MaxCands == 2

MaxRatings == 1

Ids == {Num(1), Num(2)}

NameA == <<97>>

NameB == <<98>>

Stats == {<<Num(0), Num(4)>>, <<Num(2), Num(4)>>}

DetailStats == Stats \cup {<<Num(-1), Str("n/a")>>}

Teachers(ids, firsts, lasts, stats, ratings) ==
    {TeacherData(id, Txt(f), Txt(l), st[1], st[2], Ref(KSchool), ratings) :
        id \in ids, f \in firsts, l \in lasts, st \in stats}

\* the failures of a fetch: a status other than 200 (with or without a
\* store in its body), no assignment pattern, a payload that does not parse
Failures(relay_data) ==
    <<Response(404, NoPatternPage), Response(404, Page(relay_data)),
      Response(200, NoPatternPage), Response(200, BadJsonPage)>>

SearchPage(teachers) == Response(200, Page(SearchStore(teachers)))

\* the search page of each list of teachers
SearchPagesOf(l) == [i \in 1..Len(l) |-> SearchPage(l[i])]

SearchTeachers == Teachers(Ids, {NameA}, {NameB}, Stats, Missing)

SearchResponses ==
    Failures(SearchStore(<<TeacherData(Num(1), Txt(NameA), Txt(NameB), Num(2), Num(4),
                                       Ref(KSchool), Missing)>>))
    \o SearchPagesOf(Seqs(SetToSeq(SearchTeachers), MaxCands))

DetailTeachers == Teachers(Ids \cup {Missing}, {NameA}, {NameB}, DetailStats, Ref(KRatings))

RatingNodes == {RatingData(Num(11), Txt(<<97>>))}

\* a detail page of one teacher with the given ratings, an edge for each
DetailPage(teacher, nodes) ==
    Response(200, Page(DetailStore(<<teacher>>, [i \in 1..Len(nodes) |-> KRatingEdge(i)], nodes)))

\* a detail page holding two teacher records, the first one without
\* ratings
TwoTeacherPage(first, second) ==
    Response(200, Page(DetailStore(<<first, second>>, <<>>, <<>>)))

DetailResponses ==
    Failures(DetailStore(<<TeacherData(Num(1), Txt(NameA), Txt(NameB), Num(2), Num(4),
                                       Ref(KSchool), Missing)>>, <<>>, <<>>))
    \o SetToSeq({DetailPage(t, ns) :
                   t \in DetailTeachers, ns \in Range(Seqs(SetToSeq(RatingNodes), MaxRatings))})
    \o SetToSeq({TwoTeacherPage(t, u) :
                   t \in Teachers(Ids, {NameA}, {NameB}, {<<Num(2), Num(4)>>}, Missing),
                   u \in Teachers(Ids, {NameB}, {NameB}, {<<Num(2), Num(4)>>}, Missing)})

Queries == {<<97, 32, 98>>}

\* no fetch was made: the response is never read
Unfetched == Response(0, NoPatternPage)

(***************************************************************************)
(* NameSpec: one query and the pages the site answers it with, drawn at    *)
(* the start; the names and the queries vary.                              *)
(***************************************************************************)
MaxTokens == 3

NameUpperA == <<65>>

NameTokens == <<NameUpperA, NameB>>

\* the lists of up to MaxTokens tokens
TokenLists == Seqs(NameTokens, MaxTokens)

\* the tokens with sep between them
RECURSIVE Join(_, _)
Join(tokens, sep) ==
    IF tokens = <<>> THEN <<>>
    ELSE IF Len(tokens) = 1 THEN tokens[1]
    ELSE tokens[1] \o sep \o Join(Tail(tokens), sep)

\* each list of tokens as a query with one blank between the tokens, and as
\* one with two blanks between them, a blank before and a blank after
NameQueries ==
    [i \in 1..Len(TokenLists) |-> Join(TokenLists[i], <<SP>>)]
    \o [i \in 1..Len(TokenLists) |-> <<SP>> \o Join(TokenLists[i], <<SP, SP>>) \o <<SP>>]

NameTeachers ==
    Teachers(Ids, {NameUpperA, NameB}, {NameA, NameB}, {<<Num(2), Num(4)>>}, Missing)

NameSearchResponses == SearchPagesOf(Seqs(SetToSeq(NameTeachers), MaxCands))

NameDetailResponses ==
    <<Response(404, NoPatternPage),
      DetailPage(TeacherData(Num(1), Txt(NameA), Txt(NameB), Num(2), Num(4), Ref(KSchool),
                             Ref(KRatings)),
                 SetToSeq(RatingNodes))>>

(***************************************************************************)
(* CsvSpec: detail pages of one teacher whose ratings carry the comments   *)
(* of up to MaxCommentLen characters, and comments that are no strings.    *)
(***************************************************************************)
MaxCommentLen == 3

CommentChars == <<LF, CR, SP, DQ, 97>>

CsvComments ==
    [i \in 1..Len(Seqs(CommentChars, MaxCommentLen)) |->
        Txt(Seqs(CommentChars, MaxCommentLen)[i])]
    \o <<Null, Num(0), Num(5)>>

\* the comments of the pages with two ratings
CsvPairComments == <<Txt(<<LF>>), Txt(<<CR, DQ>>), Num(5)>>

CsvTeacher == TeacherData(Num(1), Txt(NameA), Txt(NameB), Num(2), Num(4), Ref(KSchool), Ref(KRatings))

CsvDetailResponses ==
    <<Response(404, NoPatternPage), DetailPage(CsvTeacher, <<>>)>>
    \o [i \in 1..Len(CsvComments) |->
          DetailPage(CsvTeacher, <<RatingData(Num(11), CsvComments[i])>>)]
    \o [i \in 1..(Len(CsvPairComments) * Len(CsvPairComments)) |->
          DetailPage(CsvTeacher,
                     <<RatingData(Num(11), CsvPairComments[((i - 1) \div Len(CsvPairComments)) + 1]),
                       RatingData(Num(12), CsvPairComments[((i - 1) % Len(CsvPairComments)) + 1])>>)]

\* The pages in some order, and the handlers' pure parts evaluated once per
\* page: the actions name a page by its index.
SearchPages == SearchResponses \o NameSearchResponses

DetailPages == <<Unfetched>> \o DetailResponses \o NameDetailResponses \o CsvDetailResponses

\* the pages of Spec and of NameSpec, by index
SpecSearch == 1..Len(SearchResponses)

SpecDetail == 2..(1 + Len(DetailResponses))

NameSearch == (Len(SearchResponses) + 1)..Len(SearchPages)

NameDetail == (2 + Len(DetailResponses))..(1 + Len(DetailResponses) + Len(NameDetailResponses))

CsvDetail == (2 + Len(DetailResponses) + Len(NameDetailResponses))..Len(DetailPages)

SearchOf == [i \in 1..Len(SearchPages) |-> SearchResult(SearchPages[i])]

ScrapeOf == [i \in 1..Len(SearchPages) |-> ScrapeProfessors(SearchPages[i])]

DetailOf == [i \in 1..Len(DetailPages) |-> DetailResult(DetailPages[i])]

VARIABLES
    professors,  \* self.professors, in insertion order
    ret,         \* the last operation, its argument and what it returned
    fetches,     \* the fetches the last operation made, in order
    resolved,    \* the ids the last operation passed to get_professor_by_id
    detailed,    \* the ids whose stored record was built from a detail page
    site,        \* NameSpec: the query and the pages drawn at the start
    store,       \* ExtractSpec: the object store drawn at the start
    out          \* ExtractSpec: the extraction last applied and its outcome;
                 \* CsvSpec: the export last made and what it wrote

vars == <<professors, ret, fetches, resolved, detailed, site, store, out>>

session == <<professors, ret, fetches, resolved, detailed, site>>

NoSite == [query |-> <<>>, search |-> 0, detail |-> 0]

NoOut == [op |-> "none", arg |-> "", exc |-> FALSE, none |-> FALSE, d |-> <<>>, prof |-> NoProfessor,
          ratings |-> <<>>, cells |-> <<>>]

Call(op, arg, exc, none, prof, list) ==
    [op |-> op, arg |-> arg, exc |-> exc, none |-> none, prof |-> prof, list |-> list]

\* a fetch: the page asked for, the status of the response, and whether
\* its text holds the assignment pattern and a payload that parses
Fetch(url, response) ==
    [url |-> url, status_code |-> response.status_code,
     pattern |-> response.text.pattern, valid |-> response.text.valid]



\* RateMyProfApi.search_professor
SearchProfessor(query, response) ==
    \E s \in {SearchOf[response]} :
        /\ ret' = Call("search_professor", Txt(query), s.exc, FALSE, NoProfessor, s.l)
        /\ fetches' = <<Fetch("search", SearchPages[response])>>
        /\ resolved' = <<>>
        /\ UNCHANGED <<professors, detailed, site, store, out>>

\* RateMyProfApi.get_professor_by_id
GetProfessorById(professor_id, response) ==
    \E b \in {ByIdResult(professors, professor_id, DetailOf[response])} :
        /\ professors' = b.professors
        /\ ret' = Call("get_professor_by_id", professor_id, b.out.exc, b.out.none, b.out.v, <<>>)
        /\ fetches' = IF b.fetched THEN <<Fetch("professor", DetailPages[response])>> ELSE <<>>
        /\ resolved' = <<professor_id>>
        /\ detailed' = IF b.fetched /\ ~b.out.exc /\ ~b.out.none
                       THEN detailed \cup {b.out.v.ratemyprof_id}
                       ELSE detailed
        /\ UNCHANGED <<site, store, out>>

\* RateMyProfApi.get_professor_by_name
GetProfessorByName(name, search_response, detail_response) ==
    \E s \in {SearchOf[search_response]} :
    \E c \in {ChosenIndex(name, s.l)} :
        IF s.exc \/ s.l = <<>> \/ c.exc
        THEN /\ ret' = Call("get_professor_by_name", Txt(name),
                            s.exc \/ (s.l # <<>> /\ c.exc), ~s.exc /\ s.l = <<>>,
                            NoProfessor, <<>>)
             /\ fetches' = <<Fetch("search", SearchPages[search_response])>>
             /\ resolved' = <<>>
             /\ UNCHANGED <<professors, detailed, site, store, out>>
        ELSE \E b \in {ByIdResult(professors, s.l[c.i].ratemyprof_id,
                                  DetailOf[detail_response])} :
             /\ professors' = b.professors
             /\ ret' = Call("get_professor_by_name", Txt(name), b.out.exc, b.out.none,
                            b.out.v, <<>>)
             /\ fetches' = <<Fetch("search", SearchPages[search_response])>>
                           \o (IF b.fetched THEN <<Fetch("professor", DetailPages[detail_response])>>
                               ELSE <<>>)
             /\ resolved' = <<s.l[c.i].ratemyprof_id>>
             /\ detailed' = IF b.fetched /\ ~b.out.exc /\ ~b.out.none
                            THEN detailed \cup {b.out.v.ratemyprof_id}
                            ELSE detailed
             /\ UNCHANGED <<site, store, out>>

\* whether get_professor_by_name reads the response of a detail fetch
ByNameFetchesDetail(name, search_response) ==
    \E s \in {SearchOf[search_response]} :
    \E c \in {ChosenIndex(name, s.l)} :
        /\ ~s.exc /\ s.l # <<>> /\ ~c.exc
        /\ ~Cached(professors, s.l[c.i].ratemyprof_id)

\* RateMyProfApi.__init__: the session after construction holds the roster
\* scraped from the first search page
Constructed(response) ==
    \E r \in {ScrapeOf[response]} :
        /\ ~r.exc
        /\ professors = r.d
        /\ ret = Call("__init__", Null, FALSE, FALSE, NoProfessor, <<>>)
        /\ fetches = <<Fetch("search", SearchPages[response])>>
        /\ resolved = <<>>
        /\ detailed = {}
        /\ store = <<>>
        /\ out = NoOut

Init == \E r \in SpecSearch : Constructed(r) /\ site = NoSite

Search == \E q \in Queries, r \in SpecSearch : SearchProfessor(q, r)

ById == \E id \in Ids, r \in SpecDetail : GetProfessorById(id, r)

\* the detail page is drawn only when get_professor_by_name fetches one
\* (1 is the index of Unfetched)
ByName ==
    \E q \in Queries, sr \in SpecSearch :
        \E dr \in (IF ByNameFetchesDetail(q, sr) THEN SpecDetail ELSE {1}) :
            GetProfessorByName(q, sr, dr)

Next == Search \/ ById \/ ByName

Spec == Init /\ [][Next]_vars

\* NameSpec: the session is constructed from the first page of one teacher;
\* the operations are applied to the query and the pages drawn
NameRosters == {Len(SearchResponses) + 2}

NameInit ==
    /\ \E r \in NameRosters : Constructed(r)
    /\ \E q \in Range(NameQueries), sr \in NameSearch, dr \in NameDetail :
          site = [query |-> q, search |-> sr, detail |-> dr]

NameSearchStep == SearchProfessor(site.query, site.search)

NameByName == GetProfessorByName(site.query, site.search, site.detail)

NameById == \E id \in Ids : GetProfessorById(id, site.detail)

NameNext == NameSearchStep \/ NameByName \/ NameById

NameSpec == NameInit /\ [][NameNext]_vars

(***************************************************************************)
(* ExtractSpec: the extraction applied to one object store drawn at the    *)
(* start.  The stores are a well-linked page of two search candidates, the *)
(* first with two ratings, with up to MaxDefects of its entries or fields  *)
(* replaced or removed, and that page with a ratings connection of up to   *)
(* MaxRatingEdges edge references.                                         *)
(***************************************************************************)
MaxDefects == 1

MaxRatingEdges == 21

BaseStore ==
    <<<<KEdge(1), Edge("TeacherSearchConnectionEdge", Ref(KTeacher(1)))>>,
      <<KConn, Connection("TeacherSearchConnectionConnection", Refs(<<KEdge(1), KEdge(2)>>))>>,
      <<KEdge(2), Edge("TeacherSearchConnectionEdge", Ref(KTeacher(2)))>>,
      <<KTeacher(1), TeacherData(Num(1), Txt(NameA), Txt(NameB), Num(2), Num(4),
                                 Ref(KSchool), Ref(KRatings))>>,
      <<KTeacher(2), TeacherData(Num(2), Txt(NameB), Txt(NameB), Num(2), Num(4),
                                 Ref(KSchool), Missing)>>,
      <<KSchool, Map("__typename" :> Str("School"))>>,
      <<KRatings, Connection("RatingConnection", Refs(<<KRatingEdge(1), KRatingEdge(2)>>))>>,
      <<KRatingEdge(1), Edge("RatingEdge", Ref(KRating(1)))>>,
      <<KRatingEdge(2), Edge("RatingEdge", Ref(KRating(2)))>>,
      <<KRating(1), RatingData(Num(11), Txt(<<97>>))>>,
      <<KRating(2), RatingData(Num(12), Txt(<<98>>))>>>>

\* a defect: the field of the entry at key (the entry itself when field is
\* "") holds value, or is absent when value is Missing
Defect(key, field, value) == [key |-> key, field |-> field, value |-> value]

DefectsAt(keys, field, values) ==
    {Defect(k, field, v) : k \in keys, v \in values}

Defects ==
    DefectsAt({KConn, KEdge(1), KEdge(2), KTeacher(1), KTeacher(2), KRatings,
               KRatingEdge(1), KRating(1)}, "", {Missing, Null, Num(7)})
    \cup DefectsAt({KConn, KRatings}, "edges",
                   {Missing, Null, EmptyMap, Map("__refs" :> Null),
                    Refs(<<KDangling, KEdge(2), KRatingEdge(2)>>)})
    \cup DefectsAt({KEdge(1), KEdge(2), KRatingEdge(1)}, "node",
                   {Missing, Null, EmptyMap, Ref(KDangling),
                    Map("__ref" :> List(<<Str(KDangling)>>))})
    \cup DefectsAt({KTeacher(1), KTeacher(2), KRating(2)}, "__typename", {Missing, Str("Other")})
    \cup DefectsAt({KTeacher(1), KTeacher(2)}, "legacyId", {Missing, Null, Num(1)})
    \cup DefectsAt({KTeacher(1), KTeacher(2)}, "school", {Missing, Null})
    \cup DefectsAt({KTeacher(1), KTeacher(2)}, "numRatings", {Missing, Null, Num(0)})
    \cup DefectsAt({KTeacher(1)}, "avgRating", {Missing, Str("n/a")})
    \cup DefectsAt({KTeacher(1)}, "ratings(first:20)", {Missing, Null, Ref(KDangling)})

DefectList == SetToSeq(Defects)

\* the increasing sequences of up to k indices of DefectList
RECURSIVE Combos(_)
Combos(k) ==
    IF k = 0 THEN {<<>>}
    ELSE LET C == Combos(k - 1)
         IN  C \cup UNION {{Append(c, j) :
                                j \in ((IF c = <<>> THEN 0 ELSE c[Len(c)]) + 1)..Len(DefectList)} :
                             c \in {x \in C : Len(x) = k - 1}}

SetField(m, field, value) ==
    IF value = Missing THEN Map([k \in DOMAIN m.f \ {field} |-> m.f[k]])
    ELSE Map([k \in DOMAIN m.f \cup {field} |-> IF k = field THEN value ELSE m.f[k]])

ApplyDefect(st, d) ==
    IF d.field = "" /\ d.value = Missing THEN SelectSeq(st, LAMBDA e : e[1] # d.key)
    ELSE [i \in 1..Len(st) |->
            IF st[i][1] # d.key THEN st[i]
            ELSE IF d.field = "" THEN <<d.key, d.value>>
            ELSE IF st[i][2].t = "map" THEN <<d.key, SetField(st[i][2], d.field, d.value)>>
            ELSE st[i]]

RECURSIVE ApplyDefects(_, _, _)
ApplyDefects(st, c, i) ==
    IF i > Len(c) THEN st ELSE ApplyDefects(ApplyDefect(st, DefectList[c[i]]), c, i + 1)

\* n edge references, repeating the pattern
Cycle(pattern, n) == [i \in 1..n |-> pattern[((i - 1) % Len(pattern)) + 1]]

RatingPatterns ==
    {p \in Range(Seqs(<<KRatingEdge(1), KRatingEdge(2), KDangling>>, 2)) : p # <<>>}

ExtractStores ==
    {ApplyDefects(BaseStore, c, 1) : c \in Combos(MaxDefects)}
    \cup {ApplyDefect(BaseStore, Defect(KRatings, "edges", Refs(Cycle(p, n)))) :
            p \in RatingPatterns, n \in 0..MaxRatingEdges}

ExtractInit ==
    /\ store \in ExtractStores
    /\ out = NoOut
    /\ professors = <<>>
    /\ ret = Call("__init__", Null, FALSE, FALSE, NoProfessor, <<>>)
    /\ fetches = <<>>
    /\ resolved = <<>>
    /\ detailed = {}
    /\ site = NoSite

\* _process_professor_search_data(store)
ExtractSearch ==
    LET r == ProcessProfessorSearchData(store)
    IN  /\ out' = [NoOut EXCEPT !.op = "search", !.exc = r.exc, !.d = r.d]
        /\ UNCHANGED <<session, store>>

\* the detail extraction of get_professor_by_id on store
ExtractDetail ==
    LET r == DetailProfessor(store)
    IN  /\ out' = [NoOut EXCEPT !.op = "detail", !.exc = r.exc, !.none = r.none, !.prof = r.v]
        /\ UNCHANGED <<session, store>>

\* _extract_ratings(store, prof_data) for a teacher record of the store
ExtractTeacherRatings ==
    \E i \in 1..Len(store) :
        /\ store[i][2].t = "map"
        /\ HasTag(store[i][2], "Teacher").v
        /\ LET r == ExtractRatings(store, store[i][2])
           IN  out' = [NoOut EXCEPT !.op = "ratings", !.arg = store[i][1], !.exc = r.exc,
                                    !.ratings = r.l]
        /\ UNCHANGED <<session, store>>

ExtractNext == ExtractSearch \/ ExtractDetail \/ ExtractTeacherRatings

ExtractSpec == ExtractInit /\ [][ExtractNext]_vars

(***************************************************************************)
(* CsvSpec: a session that starts with an empty roster, looks professors   *)
(* up and exports their ratings; the site serves one detail page.          *)
(***************************************************************************)
\* RateMyProfApi.write_ratings_to_csv. out.none: no file was written;
\* out.d: the ratings as get_professor_by_id returned them; out.ratings:
\* the rows handed to the writer; out.cells: their comment cells
WriteRatingsToCsv(professor_id, response) ==
    \E b \in {ByIdResult(professors, professor_id, DetailOf[response])} :
    \E w \in {IF b.out.exc \/ b.out.none THEN CsvLoop(<<>>, 1, <<>>, <<>>)
              ELSE CsvLoop(b.out.v.ratings, 1, <<>>, <<>>)} :
    \E written \in {~b.out.exc /\ ~b.out.none /\ b.out.v.ratings # <<>>} :
        /\ professors' = IF written
                         THEN SetRatings(b.professors, b.out.v.ratemyprof_id, w.ratings)
                         ELSE b.professors
        /\ ret' = Call("write_ratings_to_csv", professor_id, b.out.exc \/ w.exc,
                       ~(b.out.exc \/ w.exc), NoProfessor, <<>>)
        /\ out' = IF written
                  THEN [NoOut EXCEPT !.op = "csv", !.arg = professor_id, !.exc = w.exc,
                                     !.d = b.out.v.ratings,
                                     !.ratings = SubSeq(w.ratings, 1, Len(w.cells)),
                                     !.cells = w.cells]
                  ELSE [NoOut EXCEPT !.op = "csv", !.arg = professor_id, !.exc = b.out.exc,
                                     !.none = TRUE]
        /\ fetches' = IF b.fetched THEN <<Fetch("professor", DetailPages[response])>> ELSE <<>>
        /\ resolved' = <<professor_id>>
        /\ detailed' = IF b.fetched /\ ~b.out.exc /\ ~b.out.none
                       THEN detailed \cup {b.out.v.ratemyprof_id}
                       ELSE detailed
        /\ UNCHANGED <<site, store>>

\* the roster fetch of the construction failed: the store starts empty;
\* the detail page the site serves is drawn at the start
CsvInit ==
    /\ Constructed(1)
    /\ \E r \in CsvDetail : site = [query |-> <<>>, search |-> 0, detail |-> r]

CsvById == \E id \in Ids : GetProfessorById(id, site.detail)

CsvWrite == \E id \in Ids : WriteRatingsToCsv(id, site.detail)

CsvNext == CsvById \/ CsvWrite

CsvSpec == CsvInit /\ [][CsvNext]_vars

(***************************************************************************)
(* Properties of the session.                                              *)
(***************************************************************************)
\* every Professor record the session holds or the last operation returned
Records ==
    Range(professors) \cup Range(ret.list)
    \cup (IF ret.prof = NoProfessor THEN {} ELSE {ret.prof})

Found_(op) == ret.op = op /\ ~ret.exc /\ ~ret.none /\ ret.prof # NoProfessor

\* C1: every Professor record, stored or returned, whose num_of_ratings is
\* below 1 has overall_rating 0, whatever avgRating its source carried.
C1_ZeroRatingWithoutRatings ==
    \A p \in Records : LessThanOne(p.num_of_ratings).v => p.overall_rating = Num(0)

\* a record with no ratings (its source carried an avgRating other than 0)
\* is stored and was returned as well
C1_Witness ==
    /\ \E p \in Range(professors) : p.num_of_ratings.n < 1
    /\ Found_("get_professor_by_name") /\ ret.prof.num_of_ratings.n < 1
    /\ ret.prof.overall_rating = Num(0)

\* C2: a call of get_professor_by_id with an id that is a key of
\* self.professors returns the stored record, fetches no detail page and
\* leaves self.professors as it was.
C2_MemoizedLookup ==
    [][(Len(resolved') = 1 /\ Cached(professors, resolved'[1]))
        => /\ professors' = professors
           /\ ~ret'.exc /\ ~ret'.none
           /\ ret'.prof = professors[DictIndex(professors, resolved'[1], 1)]
           /\ \A i \in 1..Len(fetches') : fetches'[i].url # "professor"]_vars

\* get_professor_by_id answered from the store, without a fetch
C2_Witness ==
    /\ Found_("get_professor_by_id") /\ fetches = <<>>
    /\ Cached(professors, ret.arg) /\ ret.prof.ratings # <<>>

\* C6 (as claimed): a professor returned by get_professor_by_name has its
\* ratings populated from a detail page.
C6_ByNameHasDetail ==
    Found_("get_professor_by_name") => ret.prof.ratemyprof_id \in detailed

LastFetch == fetches[Len(fetches)]

FailedFetch(f) == f.status_code # 200 \/ ~f.pattern \/ ~f.valid

\* C9: an operation whose fetch fails (a status other than 200, no
\* assignment pattern, a payload that is not JSON) raises nothing, returns
\* the empty list (search_professor) or None (the lookups), made that fetch
\* once and nothing after it, and leaves self.professors as it was.
C9_FailureDegrades ==
    [][(fetches' # <<>> /\ FailedFetch(fetches'[Len(fetches')]))
        => /\ professors' = professors
           /\ ~ret'.exc
           /\ ret'.op = "search_professor" => ret'.list = <<>> /\ Len(fetches') = 1
           /\ ret'.op = "get_professor_by_id" => ret'.none /\ Len(fetches') = 1
           /\ ret'.op = "get_professor_by_name"
                => /\ ret'.none
                   /\ Len(fetches') \in {1, 2}
                   /\ Len(fetches') = 1 => fetches'[1].url = "search" /\ resolved' = <<>>
                   /\ Len(fetches') = 2 => /\ fetches'[1].url = "search"
                                           /\ fetches'[2].url = "professor"
                                           /\ ~FailedFetch(fetches'[1])]_vars

\* get_professor_by_name found a candidate and its detail fetch failed with
\* a status other than 200
C9_Witness ==
    /\ ret.op = "get_professor_by_name" /\ ret.none /\ Len(fetches) = 2
    /\ LastFetch.status_code # 200 /\ LastFetch.valid

\* C10 (as claimed): a professor that get_professor_by_id returns after a
\* fetch carries the requested id and is stored under it.
C10_MemoizedUnderRequestedId ==
    (Found_("get_professor_by_id") /\ fetches # <<>>)
        => /\ ret.prof.ratemyprof_id = ret.arg
           /\ Cached(professors, ret.arg)
           /\ professors[DictIndex(professors, ret.arg, 1)] = ret.prof

(***************************************************************************)
(* Properties of name matching and sorting (NameSpec).                     *)
(***************************************************************************)
\* what the search page drawn delivers, and the tokens of the query drawn
SiteResult == SearchOf[site.search].l

Tokens == Split(Lower(site.query))

\* first_name and last_name equal the first and the last token, whatever
\* the case
IsExactMatch(p) ==
    /\ Len(Tokens) >= 2
    /\ Lower(p.first_name.c) = Tokens[1]
    /\ Lower(p.last_name.c) = Tokens[Len(Tokens)]

\* C7: with a non-empty search result get_professor_by_name passes one id
\* to get_professor_by_id: the id of a result that matches the query's
\* first and last token when one does, the id of the first result
\* otherwise; with an empty result it returns None and resolves nothing.
C7_NameSelection ==
    ret.op = "get_professor_by_name"
        => IF SiteResult = <<>> THEN ret.none /\ resolved = <<>>
           ELSE /\ Len(resolved) = 1
                /\ IF \E i \in 1..Len(SiteResult) : IsExactMatch(SiteResult[i])
                   THEN \E i \in 1..Len(SiteResult) :
                          /\ SiteResult[i].ratemyprof_id = resolved[1]
                          /\ IsExactMatch(SiteResult[i])
                   ELSE resolved[1] = SiteResult[1].ratemyprof_id

\* a query of three tokens; the first result does not match it and the
\* second, which does, was resolved
C7_Witness ==
    /\ ret.op = "get_professor_by_name" /\ Len(Tokens) = 3 /\ Len(SiteResult) = 2
    /\ ~IsExactMatch(SiteResult[1]) /\ IsExactMatch(SiteResult[2])
    /\ resolved = <<SiteResult[2].ratemyprof_id>>

FullName(p) == p.first_name.c \o <<SP>> \o p.last_name.c

\* the store of the search page drawn
SiteStore == SearchPages[site.search].text.store

\* C8: search_professor on a page fetched and parsed returns the professors
\* extracted from the page's store, each once, nothing else, ordered by
\* first_name + " " + last_name ascending.
C8_SearchSorted ==
    (ret.op = "search_professor" /\ ~FailedFetch(LastFetch))
        => /\ ~ret.exc
           /\ Range(ret.list) = Range(ProcessProfessorSearchData(SiteStore).d)
           /\ Len(ret.list) = Len(ProcessProfessorSearchData(SiteStore).d)
           /\ \A i, j \in 1..Len(ret.list) :
                i # j => ret.list[i].ratemyprof_id # ret.list[j].ratemyprof_id
           /\ \A i \in 1..(Len(ret.list) - 1) :
                StrLeq(FullName(ret.list[i]), FullName(ret.list[i + 1]))

\* two professors are returned, in the order opposite to the one of the
\* page
C8_Witness ==
    /\ ret.op = "search_professor" /\ Len(ret.list) = 2
    /\ ret.list[1] = ProcessProfessorSearchData(SiteStore).d[2]
    /\ StrLess(FullName(ret.list[1]), FullName(ret.list[2]))

(***************************************************************************)
(* Properties of the extraction (ExtractSpec).                             *)
(***************************************************************************)
\* C3 (as claimed): no extraction raises, whatever the store.
C3_ExtractionNeverRaises == ~out.exc

\* the value stored under key (None when there is none)
Lookup(key) ==
    IF \E i \in 1..Len(store) : store[i][1] = key
    THEN store[CHOOSE i \in 1..Len(store) : store[i][1] = key][2]
    ELSE Null

IsRef(v) == v.t = "map" /\ "__ref" \in DOMAIN v.f /\ v.f["__ref"].t = "str"

Tagged(v, tag) == v.t = "map" /\ "__typename" \in DOMAIN v.f /\ v.f["__typename"] = Str(tag)

\* the record an edge reference leads to: reference -> edge -> node
NodeOf(ref) ==
    IF ref.t # "str" THEN Null
    ELSE LET e == Lookup(ref.s)
         IN  IF e.t = "map" /\ "node" \in DOMAIN e.f /\ IsRef(e.f["node"])
             THEN Lookup(e.f["node"].f["__ref"].s)
             ELSE Null

\* the edge references of a connection
RefsOf(connection) ==
    IF /\ connection.t = "map" /\ "edges" \in DOMAIN connection.f
       /\ connection.f["edges"].t = "map" /\ "__refs" \in DOMAIN connection.f["edges"].f
       /\ connection.f["edges"].f["__refs"].t = "list"
    THEN connection.f["edges"].f["__refs"].l
    ELSE <<>>

\* the teacher records reached from the search connection
Candidates ==
    IF Tagged(Lookup(KConn), "TeacherSearchConnectionConnection")
    THEN {c \in {NodeOf(r) : r \in Range(RefsOf(Lookup(KConn)))} : Tagged(c, "Teacher")}
    ELSE {}

LegacyId(c) == IF "legacyId" \in DOMAIN c.f THEN c.f["legacyId"] ELSE Null

\* C4: the mapping the search extraction returns holds an entry only for a
\* candidate (connection -> edge -> node -> record tagged Teacher) with a
\* legacyId that is not null, under that legacyId; and every candidate with
\* a legacyId has its entry, also beside a candidate that has none.
C4_OnlyCandidatesWithId ==
    (out.op = "search" /\ ~out.exc)
        => /\ \A p \in Range(out.d) :
                /\ p.ratemyprof_id # Null
                /\ \E c \in Candidates : LegacyId(c) = p.ratemyprof_id
           /\ \A i, j \in 1..Len(out.d) :
                i # j => out.d[i].ratemyprof_id # out.d[j].ratemyprof_id
           /\ \A c \in Candidates :
                Truthy(LegacyId(c)) => \E p \in Range(out.d) : p.ratemyprof_id = LegacyId(c)

\* one candidate has no legacyId, or a null one, and the other one is
\* extracted
C4_Witness ==
    /\ out.op = "search" /\ ~out.exc /\ Len(out.d) = 1
    /\ Cardinality(Candidates) = 2
    /\ \E c \in Candidates : LegacyId(c) = Null

PageSize == 20

\* the references of the ratings connection of the teacher out.arg that lead
\* to a record tagged Rating, in the order of the connection
TeacherRatingRefs ==
    LET t == Lookup(out.arg)
        field == IF "ratings(first:20)" \in DOMAIN t.f THEN t.f["ratings(first:20)"] ELSE Null
    IN  IF IsRef(field)
        THEN SelectSeq(RefsOf(Lookup(field.f["__ref"].s)), LAMBDA r : Tagged(NodeOf(r), "Rating"))
        ELSE <<>>

\* the ratings returned are those of the first references that lead to a
\* rating, in their order
InEdgeOrder ==
    /\ Len(out.ratings) <= Len(TeacherRatingRefs)
    /\ \A i \in 1..Len(out.ratings) :
         /\ out.ratings[i].id = LegacyId(NodeOf(TeacherRatingRefs[i]))
         /\ out.ratings[i].comment = NodeOf(TeacherRatingRefs[i]).f["comment"]

RowNormalized(i) ==
    LET original == out.d[i].comment
        written == out.ratings[i].comment
    IN  original.t = "txt"
            => /\ written.t = "txt"
               /\ Len(written.c) = Len(original.c)
               /\ \A k \in 1..Len(original.c) :
                    written.c[k] = IF original.c[k] \in {LF, CR} THEN SP ELSE original.c[k]
               /\ NormalizeComment(written.c) = written.c
               /\ \A k \in 1..Len(out.cells[i]) : out.cells[i][k] \notin {LF, CR}

\* C11: the comment the ratings export writes for a rating whose comment is
\* a string is that comment with every "\r" and "\n" replaced by one blank
\* and every other character unchanged (same length); the normalization is
\* idempotent, and an export of the same professor right after an export
\* writes the same comments.
C11_CommentNormalized ==
    /\ []((out.op = "csv" /\ ~out.none)
            => /\ Len(out.ratings) = Len(out.cells)
               /\ \A i \in 1..Len(out.cells) : RowNormalized(i))
    /\ [][(out.op = "csv" /\ ~out.none /\ out'.op = "csv" /\ out'.arg = out.arg
           /\ ret'.op = "write_ratings_to_csv")
            => (~out'.none /\ out'.cells = out.cells /\ out'.ratings = out.ratings)]_vars

\* a comment of a line feed, a carriage return and a quote was written as
\* two blanks and the quote
C11_Witness ==
    /\ out.op = "csv" /\ ~out.none /\ ~out.exc /\ Len(out.cells) = 1
    /\ out.d[1].comment = Txt(<<LF, CR, DQ>>)
    /\ out.ratings[1].comment = Txt(<<SP, SP, DQ>>)
    /\ out.cells[1] = <<DQ, SP, SP, DQ, DQ, DQ>>
====
